---- MODULE Spec2Model ----
(***************************************************************************)
(* Model of the agent subprocess layer of marge-and-ralph:                 *)
(*   src/src/agents/signals.ts  (SignalParser)                             *)
(*   src/src/agents/spawn.ts    (spawnAgent)                               *)
(*                                                                         *)
(* Text is a sequence of lexemes.  A lexeme is one ordinary character      *)
(* ("a", " ", "\n") or one whole marker of the signal protocol:            *)
(*   "L"   <promise>COMPLETE</promise>                                     *)
(*   "OT"  <!-- SIGNAL:TASK_COMPLETE task="T1" -->                         *)
(*   "OF"  <!-- SIGNAL:REVIEW_FINDING -->                                  *)
(*   "OD"  <!-- SIGNAL:CHECKPOINT type="decision" type="human-verify" -->  *)
(*   "OM"  <!-- SIGNAL:TASK_COMPLETE task="T1" commit=abc -->             *)
(*   "OP"  <!-- SIGNAL:TASK_COMPLETE __proto__="x" task="T1" -->          *)
(*   "CC"  <!-- /SIGNAL -->      (the spelling feed() searches literally)  *)
(*   "CV"  <!--/SIGNAL-->        (another spelling SIGNAL_CLOSE accepts)   *)
(***************************************************************************)
EXTENDS Integers, Sequences, FiniteSets, TLC

\* ------------------------------------------------------------------------
\* Bounds of the model
\* ------------------------------------------------------------------------
MaxLineLen == 1
MaxBody == 2
MaxOut == 2
MaxErr == 1

\* ------------------------------------------------------------------------
\* Lexemes and the three patterns of signals.ts
\* ------------------------------------------------------------------------
NL == "\n"
LEGACY == "L"
CLOSE_LITERAL == "CC"

\* lexemes on which SIGNAL_CLOSE matches
SIGNAL_CLOSE == {"CC", "CV"}

\* lexemes of the shape <!-- SIGNAL:TYPE items -->
OpenMarkers == {"OT", "OF", "OD", "OM", "OP"}

\* the items written after the type, in order; quoted tells whether the
\* item has the form \w+="[^"]*"
MarkerItems(tok) ==
    CASE tok = "OT" -> << [key |-> "task", value |-> "T1", quoted |-> TRUE] >>
      [] tok = "OD" -> << [key |-> "type", value |-> "decision",
                           quoted |-> TRUE],
                          [key |-> "type", value |-> "human-verify",
                           quoted |-> TRUE] >>
      [] tok = "OM" -> << [key |-> "task", value |-> "T1", quoted |-> TRUE],
                          [key |-> "commit", value |-> "abc",
                           quoted |-> FALSE] >>
      [] tok = "OP" -> << [key |-> "__proto__", value |-> "x",
                           quoted |-> TRUE],
                          [key |-> "task", value |-> "T1", quoted |-> TRUE] >>
      [] OTHER -> << >>

\* lexemes on which SIGNAL_OPEN matches: between the type and the end of
\* the marker the pattern accepts nothing but items of the quoted form
SIGNAL_OPEN ==
    {tok \in OpenMarkers :
        \A i \in 1..Len(MarkerItems(tok)) : MarkerItems(tok)[i].quoted}

\* capture group 1 of SIGNAL_OPEN
OpenType(tok) ==
    CASE tok = "OT" -> "TASK_COMPLETE"
      [] tok = "OF" -> "REVIEW_FINDING"
      [] tok = "OD" -> "CHECKPOINT"
      [] tok = "OM" -> "TASK_COMPLETE"
      [] tok = "OP" -> "TASK_COMPLETE"
      [] OTHER -> "?"

\* capture group 2 of SIGNAL_OPEN: the key="value" pairs as written
OpenRaw(tok) ==
    LET items == SelectSeq(MarkerItems(tok), LAMBDA it : it.quoted)
    IN [i \in 1..Len(items) |-> <<items[i].key, items[i].value>>]

WhiteSpace == {" ", NL}

\* ------------------------------------------------------------------------
\* String helpers (String.prototype.includes / indexOf / trim, Array.join)
\* ------------------------------------------------------------------------
Includes(s, tok) == \E i \in 1..Len(s) : s[i] = tok

\* 1-based index of the first occurrence of a lexeme of set toks, 0 if none
IndexOfAny(s, toks) ==
    IF \E i \in 1..Len(s) : s[i] \in toks
    THEN CHOOSE i \in 1..Len(s) :
            /\ s[i] \in toks
            /\ \A j \in 1..(i-1) : s[j] \notin toks
    ELSE 0

IndexOf(s, tok) == IndexOfAny(s, {tok})

Trim(s) ==
    IF \A i \in 1..Len(s) : s[i] \in WhiteSpace
    THEN << >>
    ELSE LET first == CHOOSE i \in 1..Len(s) :
                        /\ s[i] \notin WhiteSpace
                        /\ \A j \in 1..(i-1) : s[j] \in WhiteSpace
             last  == CHOOSE i \in 1..Len(s) :
                        /\ s[i] \notin WhiteSpace
                        /\ \A j \in (i+1)..Len(s) : s[j] \in WhiteSpace
         IN SubSeq(s, first, last)

RECURSIVE Join(_)
Join(lines) ==
    IF Len(lines) = 0 THEN << >>
    ELSE IF Len(lines) = 1 THEN lines[1]
    ELSE lines[1] \o <<NL>> \o Join(Tail(lines))

\* ------------------------------------------------------------------------
\* signals.ts: parseAttrs, SignalParser
\* ------------------------------------------------------------------------
\* attributes are a set of <<key, value>> pairs.  ATTR_RE is one regex
\* object with the g flag, shared by every parser of the process: exec
\* starts at its lastIndex (counted in pairs here) and moves it.
\* the key that Object.prototype answers with an accessor
PROTO_KEY == "__proto__"

\* line 94: attrs[m[1]] = m[2] on the object literal of line 91.  The
\* assignment makes or replaces an own property, except for the key
\* __proto__: that one goes to the setter inherited from Object.prototype,
\* which does nothing when given a string
SetAttr(attrs, m) ==
    IF m[1] = PROTO_KEY THEN attrs
    ELSE {p \in attrs : p[1] # m[1]} \cup {m}

RECURSIVE ExecLoop(_, _, _)
ExecLoop(raw, li, attrs) ==
    IF li >= Len(raw) THEN attrs
    ELSE ExecLoop(raw, li + 1, SetAttr(attrs, raw[li + 1]))

parseAttrs(raw, li) == ExecLoop(raw, li, {})

\* lastIndex when parseAttrs returns: the loop stops on the exec that finds
\* nothing, and that exec puts lastIndex back to 0
LastIndexAfter_NoFinalExec(raw, li) == IF li < Len(raw) THEN Len(raw) ELSE 0

LastIndexAfter(raw, li) == 0

NoSignal == [type |-> "null", attrs |-> {}, body |-> << >>]
NoPending == [type |-> "null", attrs |-> {}]
CompleteSignal == [type |-> "COMPLETE", attrs |-> {}, body |-> << >>]

SIGNAL_CLOSE_test(line) == \E i \in 1..Len(line) : line[i] \in SIGNAL_CLOSE

\* SIGNAL_OPEN.exec(line): index of the leftmost match, 0 for no match
SIGNAL_OPEN_exec_Last(line) ==
    IF \E i \in 1..Len(line) : line[i] \in SIGNAL_OPEN
    THEN CHOOSE i \in 1..Len(line) :
            /\ line[i] \in SIGNAL_OPEN
            /\ \A j \in (i + 1)..Len(line) : line[j] \notin SIGNAL_OPEN
    ELSE 0

SIGNAL_OPEN_exec(line) == IndexOfAny(line, SIGNAL_OPEN)

\* body of a self-closing block: lines 135-137 of signals.ts
SelfClosingBody(line, openIdx) ==
    LET afterOpen == SubSeq(line, openIdx + 1, Len(line))
        closeIdx  == IndexOf(afterOpen, CLOSE_LITERAL)
    IN IF closeIdx > 0 THEN Trim(SubSeq(afterOpen, 1, closeIdx - 1)) ELSE << >>

\* line 110: line.includes("<promise>COMPLETE</promise>")
LegacyTest_Exact(line) == line = <<LEGACY>>

LegacyTest(line) == Includes(line, LEGACY)

\* line 119: this.bodyLines.join("\n").trim()
ClosedBody_NoTrim(body) == Join(body)

ClosedBody(body) == Trim(Join(body))

\* lines 110-112: the legacy literal gives a COMPLETE signal and touches
\* no field of the parser
LegacyBranch_Discards(pend, body, li) ==
    [ret |-> CompleteSignal, pending |-> NoPending, bodyLines |-> << >>,
     lastIndex |-> li]

LegacyBranch(pend, body, li) ==
    [ret |-> CompleteSignal, pending |-> pend, bodyLines |-> body,
     lastIndex |-> li]

\* line 115: this.pending && SIGNAL_CLOSE.test(line)
ClosesPending_UnlessOpen(pend, line) ==
    pend # NoPending /\ SIGNAL_CLOSE_test(line) /\ SIGNAL_OPEN_exec(line) = 0

ClosesPending(pend, line) == pend # NoPending /\ SIGNAL_CLOSE_test(line)

\* lines 133-139: a self-closing block is returned, no field is assigned
SelfClosingBranch_Opens(pend, body, sig, li) ==
    [ret |-> sig, pending |-> [type |-> sig.type, attrs |-> sig.attrs],
     bodyLines |-> << >>, lastIndex |-> li]

SelfClosingBranch(pend, body, sig, li) ==
    [ret |-> sig, pending |-> pend, bodyLines |-> body, lastIndex |-> li]

\* lines 147-152: a line with no marker is pushed when a block is pending
OtherLine_AlwaysPush(pend, body, line, li) ==
    [ret |-> NoSignal, pending |-> pend, bodyLines |-> Append(body, line),
     lastIndex |-> li]

OtherLine(pend, body, line, li) ==
    IF pend # NoPending
    THEN [ret |-> NoSignal, pending |-> pend,
          bodyLines |-> Append(body, line), lastIndex |-> li]
    ELSE [ret |-> NoSignal, pending |-> pend, bodyLines |-> body,
          lastIndex |-> li]

\* lines 116-123: the pending block is returned with the accumulated body
\* lines as its body; the line that closes it gives nothing to the body
CloseBranch_WithCloseLine(pend, body, line, li) ==
    [ret |-> [type |-> pend.type, attrs |-> pend.attrs,
              body |-> ClosedBody(Append(body,
                          SubSeq(line, 1,
                                 IndexOfAny(line, SIGNAL_CLOSE) - 1)))],
     pending |-> NoPending, bodyLines |-> << >>, lastIndex |-> li]

CloseBranch(pend, body, line, li) ==
    [ret |-> [type |-> pend.type, attrs |-> pend.attrs,
              body |-> ClosedBody(body)],
     pending |-> NoPending, bodyLines |-> << >>, lastIndex |-> li]

\* lines 142-144: the block becomes pending with an empty body, nothing is
\* returned
OpenBranch_Emits(type, attrs, li) ==
    [ret |-> [type |-> type, attrs |-> attrs, body |-> << >>],
     pending |-> [type |-> type, attrs |-> attrs],
     bodyLines |-> << >>, lastIndex |-> li]

OpenBranch(type, attrs, li) ==
    [ret |-> NoSignal, pending |-> [type |-> type, attrs |-> attrs],
     bodyLines |-> << >>, lastIndex |-> li]

\* SignalParser.feed: the returned signal, the parser state and the
\* lastIndex of ATTR_RE afterwards
feed(pend, body, line, li) ==
    IF LegacyTest(line)
    THEN LegacyBranch(pend, body, li)
    ELSE IF ClosesPending(pend, line)
    THEN CloseBranch(pend, body, line, li)
    ELSE IF SIGNAL_OPEN_exec(line) # 0
    THEN LET openIdx == SIGNAL_OPEN_exec(line)
             type    == OpenType(line[openIdx])
             raw     == OpenRaw(line[openIdx])
             attrs   == parseAttrs(raw, li)
             li2     == LastIndexAfter(raw, li)
         IN IF SIGNAL_CLOSE_test(line)
            THEN SelfClosingBranch(pend, body,
                                   [type |-> type, attrs |-> attrs,
                                    body |-> SelfClosingBody(line, openIdx)],
                                   li2)
            ELSE OpenBranch(type, attrs, li2)
    ELSE OtherLine(pend, body, line, li)

\* ------------------------------------------------------------------------
\* State
\* ------------------------------------------------------------------------
VARIABLES
    pending, bodyLines,          \* SignalParser fields
    lastIndex,                   \* ATTR_RE.lastIndex
    lastLine, ret,               \* last feed() call: argument and return value
    prePending, preBody,         \* parser fields before the last feed() call
    blk,                         \* block being fed since the parser was idle
    lastOp,                      \* last call on the parser: "feed", "reset"
    interrupted,                 \* the block being fed follows a reset() that
                                 \* cut a pending block short
    unmatched,                   \* an open marker was fed and not closed yet
    pc,                          \* position of spawnAgent
    opts,                        \* adapter.stdin, prompt, timeout
    outScript, errScript,        \* what the child program writes
    outW, errW,                  \* lexemes the child has written so far
    outPipe, errPipe,            \* written and not yet read
    outOpen, errOpen,            \* the child's ends of the pipes
    child, childCode,            \* process state, exit code
    buffer, errBuffer,           \* readStream: partial line of each stream
    outDone, errDone,            \* readStream has returned
    outputLines, signals,        \* spawnAgent locals
    cbLog,                       \* onOutput / onSignal invocations, in order
    steps,                       \* steps taken on the stdout lines, in order
    mon,                         \* options of monitorAgent, when it is the caller
    echo,                        \* writes of monitorAgent to process.stdout
    handlerLog,                  \* handler calls of monitorAgent, in order
    inFlight,                    \* handler calls that have not settled yet
    thrower,                     \* the callback call that throws, if any
    thrown,                      \* a callback has thrown in readStream
    run2,                        \* a second run of spawnAgent in the process
    stderrOut,                   \* lines written to process.stderr
    stdinMode, stdinLog,         \* stdin option of Bun.spawn, operations
                                 \* on proc.stdin
    timer,                       \* "none", "armed", "fired", "cleared"
    kills, killedExited,         \* proc.kill() calls
    result, returns              \* value spawnAgent resolved with

parserVars == <<pending, bodyLines, lastIndex>>
harnessVars == <<lastLine, ret, prePending, preBody, blk, lastOp,
                 interrupted, unmatched>>
childVars == <<outScript, errScript, outW, errW, outPipe, errPipe,
               outOpen, errOpen, child, childCode>>
run1Vars == <<pc, opts, buffer, errBuffer, outDone, errDone, outputLines,
              signals, cbLog, echo, handlerLog, inFlight, thrower, thrown,
              mon, steps, stderrOut,
              stdinMode, stdinLog, timer, kills, killedExited, result,
              returns>>
runVars == <<run1Vars, run2>>
vars == <<parserVars, harnessVars, childVars, runVars>>

\* ------------------------------------------------------------------------
\* Inputs
\* ------------------------------------------------------------------------
RECURSIVE SeqsUpTo(_, _)
SeqsUpTo(S, n) ==
    IF n = 0 THEN {<< >>}
    ELSE LET shorter == SeqsUpTo(S, n - 1)
         IN shorter \cup {Append(s, x) : s \in {t \in shorter : Len(t) = n - 1}, x \in S}

OutAlphabet == {"OT", "CC", "a", NL}
ErrAlphabet == {"e", NL}

\* Scenario 2 of the spec, a block closed with the other spelling, two
\* blocks in sequence, the legacy literal inside an open block, two blocks
\* on one line, a block that is never closed
ScenarioScripts ==
    { <<"OT", NL, "a", NL, "CC", NL>>,
      <<"OT", "CC", "OF", "CC">>,
      <<"OT", NL, "a">>,
      <<"OF", "a", "CV", NL, "OT", "CC">>,
      <<"OF", "CC", NL, "OD", NL, "CV", NL, "L">>,
      <<"OT", NL, "L", NL, "a", NL, "CC">> }

OutScripts == SeqsUpTo(OutAlphabet, MaxOut) \cup ScenarioScripts
ErrScripts == SeqsUpTo(ErrAlphabet, MaxErr) \cup {<<"OT", "CC", NL>>}

ExitCodes == {0, 1}
KilledCode == 128 + 15
Timeouts == {0, 100}

\* the timeout option as the caller passes it: left out, or a number
TimeoutOptions == {<< >>} \cup {<<t>> : t \in Timeouts}

\* line 46: timeout = 0 in the destructuring of the options
TimeoutOf(option) == IF option = << >> THEN 0 ELSE option[1]
Prompts == {"hello"}

NoResult == [exitCode |-> -1, stdout |-> << >>, signals |-> << >>]
\* a run that does not exist
NoRun == [script |-> << >>, pos |-> 0, buffer |-> << >>, done |-> FALSE,
          code |-> -1, result |-> NoResult, st |-> << >>]

NoBlock ==
    [active |-> FALSE, open |-> "", body |-> << >>, lines |-> << >>,
     phase |-> "none"]

\* ------------------------------------------------------------------------
\* spawn.ts: readStream
\* ------------------------------------------------------------------------
\* buffer.split("\n"): at least one segment, the last one is the remainder
RECURSIVE SplitNL(_)
SplitNL(s) ==
    LET i == IndexOf(s, NL)
    IN IF i = 0 THEN <<s>>
       ELSE <<SubSeq(s, 1, i - 1)>> \o SplitNL(SubSeq(s, i + 1, Len(s)))

OutEv(line) == [kind |-> "out", line |-> line, sig |-> NoSignal]
SigEv(sig) == [kind |-> "sig", line |-> << >>, sig |-> sig]

\* one step of the loop body on the k-th stdout line
Step(name, k) == <<name, k>>

\* steps of the loop body on one line, in program order (lines 84-90)
LineSteps_FeedFirst(k, completes) ==
    <<Step("feed", k), Step("push", k), Step("onOutput", k)>>
    \o (IF completes THEN <<Step("sigpush", k), Step("onSignal", k)>>
        ELSE << >>)

LineSteps(k, completes) ==
    <<Step("push", k), Step("onOutput", k), Step("feed", k)>>
    \o (IF completes THEN <<Step("sigpush", k), Step("onSignal", k)>>
        ELSE << >>)

\* monitor.ts line 42: passthrough = true when the option is left out
PassthroughOn_DefaultOff(opt) == opt = "true"

PassthroughOn(opt) == opt # "false"

NoMonitor ==
    [passthrough |-> "none", any |-> FALSE, handlers |-> {}, async |-> FALSE]

\* handler calls of monitorAgent
HandlerCall(h, sig) == [h |-> h, sig |-> sig]

\* monitor.ts lines 53-55: the onOutput monitorAgent hands to spawnAgent
MonitorOnOutput(st, line) ==
    [st EXCEPT !.echo = Append(st.echo, line \o <<NL>>)]

\* monitor.ts lines 56-60: the onSignal monitorAgent hands to spawnAgent
MonitorOnSignal_HandlerFirst(st, sig) ==
    [st EXCEPT !.handlerLog =
        st.handlerLog
        \o (IF sig.type \in mon.handlers
            THEN <<HandlerCall(sig.type, sig)>> ELSE << >>)
        \o (IF mon.any THEN <<HandlerCall("any", sig)>> ELSE << >>)]

MonitorOnSignal(st, sig) ==
    [st EXCEPT !.handlerLog =
        st.handlerLog
        \o (IF mon.any THEN <<HandlerCall("any", sig)>> ELSE << >>)
        \o (IF sig.type \in mon.handlers
            THEN <<HandlerCall(sig.type, sig)>> ELSE << >>)]

\* no callback throws
NoThrow == [cb |-> "none", k |-> 0]

\* spawn.ts lines 85 and 90: the k-th call of the callback throws
Throws(cb, k) == thrower = [cb |-> cb, k |-> k]

\* no handler call in flight
NoneInFlight == [open |-> << >>, overrun |-> FALSE, overlap |-> FALSE]

\* monitor.ts lines 56-60 with handlers that return a promise: the call of
\* line 57 is not awaited, the await of line 59 is inside an async function
\* whose promise spawn.ts line 90 drops.  n is the number of the signal;
\* overlap tells that a call for an earlier signal was still in flight
StartHandlers(st, sig, n) ==
    LET started ==
            (IF mon.any THEN <<[h |-> "any", n |-> n]>> ELSE << >>)
            \o (IF sig.type \in mon.handlers
                THEN <<[h |-> sig.type, n |-> n]>> ELSE << >>)
    IN IF mon.async /\ Len(started) > 0
       THEN [st EXCEPT !.inFlight =
               [open |-> st.inFlight.open \o started,
                overrun |-> st.inFlight.overrun,
                overlap |-> st.inFlight.overlap
                            \/ Len(st.inFlight.open) > 0]]
       ELSE st

\* a stdout line is taken up: overrun tells that a handler call was still
\* in flight then
TakeUpLine(st) ==
    [st EXCEPT !.inFlight.overrun =
        st.inFlight.overrun \/ Len(st.inFlight.open) > 0]

\* spawn.ts line 85: onOutput?.(line)
OnOutput(st, line) ==
    IF mon = NoMonitor
    THEN [st EXCEPT !.cbLog = Append(st.cbLog, OutEv(line))]
    ELSE IF PassthroughOn(mon.passthrough)
    THEN MonitorOnOutput([st EXCEPT !.cbLog = Append(st.cbLog, OutEv(line))],
                         line)
    ELSE st

\* spawn.ts line 90: onSignal?.(signal)
OnSignal(st, sig) ==
    LET logged == [st EXCEPT !.cbLog = Append(st.cbLog, SigEv(sig))]
    IN IF mon = NoMonitor THEN logged
       ELSE StartHandlers(MonitorOnSignal(logged, sig), sig,
                          Len(st.signals))

\* body of the loop over the lines of stdout (lines 83-91 and 100-107)
ProcessLine_Unshift(st, line) ==
    LET f == feed(st.pending, st.bodyLines, line, st.lastIndex)
        pushed == [TakeUpLine(st) EXCEPT
                     !.outputLines = Append(st.outputLines, line)]
        shown == OnOutput(pushed, line)
        fed == [shown EXCEPT !.pending = f.pending,
                             !.bodyLines = f.bodyLines,
                             !.lastIndex = f.lastIndex,
                             !.steps = st.steps
                                \o LineSteps(Len(st.outputLines) + 1,
                                             f.ret # NoSignal)]
    IN IF f.ret # NoSignal
       THEN OnSignal([fed EXCEPT !.signals = <<f.ret>> \o st.signals], f.ret)
       ELSE fed

ProcessLine(st, line) ==
    LET f == feed(st.pending, st.bodyLines, line, st.lastIndex)
        pushed == [TakeUpLine(st) EXCEPT
                     !.outputLines = Append(st.outputLines, line)]
        shown == OnOutput(pushed, line)
        fed == [shown EXCEPT !.pending = f.pending,
                             !.bodyLines = f.bodyLines,
                             !.lastIndex = f.lastIndex,
                             !.steps = st.steps
                                \o LineSteps(Len(st.outputLines) + 1,
                                             f.ret # NoSignal)]
        kept == [fed EXCEPT !.signals = Append(st.signals, f.ret)]
    IN IF Throws("onOutput", Len(pushed.outputLines))
       THEN [pushed EXCEPT !.thrown = TRUE]
       ELSE IF f.ret = NoSignal THEN fed
       ELSE IF Throws("onSignal", Len(kept.signals))
       THEN [kept EXCEPT !.thrown = TRUE]
       ELSE OnSignal(kept, f.ret)

\* the loop over the lines ends with the first callback that throws
RECURSIVE ProcessLines(_, _)
ProcessLines(st, lines) ==
    IF Len(lines) = 0 \/ st.thrown THEN st
    ELSE ProcessLines(ProcessLine(st, Head(lines)), Tail(lines))

\* lines 82-96: a stdout line goes through the loop body above, a stderr
\* line goes to process.stderr
HandleLines_IgnoreFlag(isStdout, st, lines) == ProcessLines(st, lines)

HandleLines(isStdout, st, lines) ==
    IF isStdout THEN ProcessLines(st, lines)
    ELSE [st EXCEPT !.stderrOut = st.stderrOut \o lines]

RunState ==
    [outputLines |-> outputLines, signals |-> signals, cbLog |-> cbLog,
     steps |-> steps, stderrOut |-> stderrOut, echo |-> echo,
     handlerLog |-> handlerLog, inFlight |-> inFlight, thrown |-> thrown,
     pending |-> pending, bodyLines |-> bodyLines, lastIndex |-> lastIndex]

\* the locals and the parser after the lines of one read were handled
SetRunState(after) ==
    \E st \in {after} :
        /\ outputLines' = st.outputLines
        /\ signals' = st.signals
        /\ cbLog' = st.cbLog
        /\ steps' = st.steps
        /\ echo' = st.echo
        /\ handlerLog' = st.handlerLog
        /\ inFlight' = st.inFlight
        /\ thrown' = st.thrown
        /\ stderrOut' = st.stderrOut
        /\ pending' = st.pending
        /\ bodyLines' = st.bodyLines
        /\ lastIndex' = st.lastIndex

\* lines completed by a chunk, and the partial line kept for the next read
ChunkLines_NoCarry(buf, chunk) ==
    LET segs == SplitNL(chunk)
    IN SubSeq(segs, 1, Len(segs) - 1)

ChunkLines(buf, chunk) ==
    LET segs == SplitNL(buf \o chunk)
    IN SubSeq(segs, 1, Len(segs) - 1)

ChunkRest(buf, chunk) ==
    LET segs == SplitNL(buf \o chunk)
    IN segs[Len(segs)]

Launched == pc \in {"reading", "awaitExit", "done", "rejected"}

\* one iteration of the read loop of readStream(proc.stdout, true)
ReadStdout ==
    /\ Launched /\ ~outDone /\ ~thrown /\ Len(outPipe) > 0
    /\ \E n \in 1..Len(outPipe) :
         LET chunk == SubSeq(outPipe, 1, n)
         IN /\ outPipe' = SubSeq(outPipe, n + 1, Len(outPipe))
            /\ buffer' = ChunkRest(buffer, chunk)
            /\ SetRunState(HandleLines(TRUE, RunState,
                                       ChunkLines(buffer, chunk)))
    /\ UNCHANGED <<harnessVars, mon, thrower, run2, outScript, errScript, outW, errW, errPipe,
                   outOpen, errOpen, child, childCode, pc, opts, errBuffer,
                   outDone, errDone, stdinMode, stdinLog, timer, kills,
                   killedExited, result, returns>>

\* lines 99-108: the final, unterminated line is handled for stdout only
RemainingLines_EvenEmpty(isStdout, buf) ==
    IF isStdout THEN <<buf>> ELSE << >>

RemainingLines(isStdout, buf) ==
    IF Len(buf) > 0 /\ isStdout THEN <<buf>> ELSE << >>

\* reader.read() reports done on stdout
ReadStdoutEnd ==
    /\ Launched /\ ~outDone /\ ~thrown /\ Len(outPipe) = 0 /\ ~outOpen
    /\ SetRunState(HandleLines(TRUE, RunState, RemainingLines(TRUE, buffer)))
    /\ outDone' = TRUE
    /\ UNCHANGED <<harnessVars, mon, thrower, run2, childVars, pc, opts, buffer, errBuffer,
                   errDone, stdinMode, stdinLog, timer, kills, killedExited,
                   result, returns>>

\* one iteration of the read loop of readStream(proc.stderr, false)
ReadStderr ==
    /\ Launched /\ ~errDone /\ Len(errPipe) > 0
    /\ \E n \in 1..Len(errPipe) :
         LET chunk == SubSeq(errPipe, 1, n)
         IN /\ errPipe' = SubSeq(errPipe, n + 1, Len(errPipe))
            /\ errBuffer' = ChunkRest(errBuffer, chunk)
            /\ SetRunState(HandleLines(FALSE, RunState,
                                       ChunkLines(errBuffer, chunk)))
    /\ UNCHANGED <<harnessVars, mon, thrower, run2, outScript, errScript, outW, errW,
                   outPipe, outOpen, errOpen, child, childCode, pc, opts,
                   buffer, outDone, errDone,
                   stdinMode, stdinLog, timer, kills, killedExited, result, returns>>

\* reader.read() reports done on stderr
ReadStderrEnd ==
    /\ Launched /\ ~errDone /\ Len(errPipe) = 0 /\ ~errOpen
    /\ SetRunState(HandleLines(FALSE, RunState,
                               RemainingLines(FALSE, errBuffer)))
    /\ errDone' = TRUE
    /\ UNCHANGED <<harnessVars, mon, thrower, run2, childVars, pc, opts, buffer,
                   errBuffer, outDone, stdinMode, stdinLog, timer, kills,
                   killedExited, result, returns>>

\* ------------------------------------------------------------------------
\* The child process (environment of spawnAgent)
\* ------------------------------------------------------------------------
ChildWriteOut ==
    /\ child = "running" /\ outOpen /\ outW < Len(outScript)
    /\ outW' = outW + 1
    /\ outPipe' = Append(outPipe, outScript[outW + 1])
    /\ UNCHANGED <<parserVars, harnessVars, runVars, outScript, errScript,
                   errW, errPipe, outOpen, errOpen, child, childCode>>

ChildWriteErr ==
    /\ child = "running" /\ errOpen /\ errW < Len(errScript)
    /\ errW' = errW + 1
    /\ errPipe' = Append(errPipe, errScript[errW + 1])
    /\ UNCHANGED <<parserVars, harnessVars, runVars, outScript, errScript,
                   outW, outPipe, outOpen, errOpen, child, childCode>>

\* the child closes its stdout and keeps running
ChildCloseOut ==
    /\ child = "running" /\ outOpen /\ outW = Len(outScript)
    /\ outOpen' = FALSE
    /\ UNCHANGED <<parserVars, harnessVars, runVars, outScript, errScript,
                   outW, errW, outPipe, errPipe, errOpen, child, childCode>>

\* the child closes its stderr and keeps running
ChildCloseErr ==
    /\ child = "running" /\ errOpen /\ errW = Len(errScript)
    /\ errOpen' = FALSE
    /\ UNCHANGED <<parserVars, harnessVars, runVars, outScript, errScript,
                   outW, errW, outPipe, errPipe, outOpen, child, childCode>>

\* the child exits on its own; its ends of the pipes close with it
ChildExit ==
    /\ child = "running"
    /\ outW = Len(outScript) \/ ~outOpen
    /\ errW = Len(errScript) \/ ~errOpen
    /\ \E code \in ExitCodes : childCode' = code
    /\ child' = "exited"
    /\ outOpen' = FALSE
    /\ errOpen' = FALSE
    /\ UNCHANGED <<parserVars, harnessVars, runVars, outScript, errScript,
                   outW, errW, outPipe, errPipe>>

\* ------------------------------------------------------------------------
\* spawn.ts: spawnAgent
\* ------------------------------------------------------------------------
\* lines 57-61: the prompt goes to stdin only for a stdin adapter
PipePrompt_NoEnd(stdin, prompt) ==
    IF stdin THEN << <<"write", prompt>> >> ELSE << >>

PipePrompt(stdin, prompt) ==
    IF stdin THEN << <<"write", prompt>>, <<"end">> >> ELSE << >>

\* line 52: stdin: adapter.stdin ? "pipe" : "ignore"
StdinOption(stdin) == IF stdin THEN "pipe" ELSE "ignore"

\* lines 111-117: the timer is set up after Bun.spawn has returned
SetUpTimeout_Never(launched, timeout) == "none"

SetUpTimeout_Always(launched, timeout) ==
    IF launched THEN "armed" ELSE "none"

SetUpTimeout_BeforeSpawn(launched, timeout) ==
    IF timeout > 0 THEN "armed" ELSE "none"

SetUpTimeout(launched, timeout) ==
    IF launched /\ timeout > 0 THEN "armed" ELSE "none"

\* lines 45-123, the child was launched: everything up to the first await
SpawnAgent ==
    /\ pc = "start"
    /\ \E stdin \in BOOLEAN, prompt \in Prompts, option \in TimeoutOptions :
       LET timeout == TimeoutOf(option) IN
         /\ opts' = [stdin |-> stdin, prompt |-> prompt, timeout |-> timeout]
         /\ stdinMode' = StdinOption(stdin)
         /\ stdinLog' = PipePrompt(stdin, prompt)
         /\ timer' = SetUpTimeout(TRUE, timeout)
    /\ child' = "running"
    /\ outOpen' = TRUE
    /\ errOpen' = TRUE
    /\ pc' = "reading"
    /\ UNCHANGED <<parserVars, harnessVars, mon, thrower, run2, outScript, errScript, outW, errW,
                   outPipe, errPipe, childCode, buffer, errBuffer, outDone,
                   errDone, outputLines, signals, cbLog, echo, handlerLog, inFlight, thrown, steps, stderrOut, kills,
                   killedExited, result, returns>>

\* line 49: Bun.spawn throws, spawnAgent rejects
SpawnAgentFails ==
    /\ pc = "start"
    /\ \E stdin \in BOOLEAN, prompt \in Prompts, option \in TimeoutOptions :
       LET timeout == TimeoutOf(option) IN
         /\ opts' = [stdin |-> stdin, prompt |-> prompt, timeout |-> timeout]
         /\ timer' = SetUpTimeout(FALSE, timeout)
    /\ pc' = "failed"
    /\ UNCHANGED <<parserVars, harnessVars, mon, thrower, run2, childVars, buffer, errBuffer,
                   outDone, errDone, outputLines, signals, cbLog, echo, handlerLog, inFlight, thrown, steps, stderrOut,
                   stdinMode, stdinLog, kills, killedExited, result, returns>>

\* lines 113-116: the timer callback runs proc.kill()
TimerFires ==
    /\ timer = "armed"
    /\ timer' = "fired"
    /\ kills' = kills + 1
    /\ IF child = "running"
       THEN /\ child' = "exited"
            /\ childCode' = KilledCode
            /\ outOpen' = FALSE
            /\ errOpen' = FALSE
            /\ UNCHANGED killedExited
       ELSE /\ killedExited' = TRUE
            /\ UNCHANGED <<child, childCode, outOpen, errOpen>>
    /\ UNCHANGED <<parserVars, harnessVars, mon, thrower, run2, outScript, errScript, outW, errW,
                   outPipe, errPipe, pc, opts, buffer, errBuffer, outDone,
                   errDone, outputLines, signals, cbLog, echo, handlerLog, inFlight, thrown, steps, stderrOut, stdinMode, stdinLog,
                   result, returns>>

\* lines 120-123: Promise.all over the two readStream calls
StreamsDrained_StdoutOnly == outDone

StreamsDrained == outDone /\ errDone

StreamsJoined ==
    /\ pc = "reading"
    /\ StreamsDrained
    /\ pc' = "awaitExit"
    /\ UNCHANGED <<parserVars, harnessVars, mon, thrower, run2, childVars, opts, buffer,
                   errBuffer, outDone, errDone, outputLines, signals, cbLog, echo, handlerLog, inFlight, thrown, steps,
                   stderrOut, stdinMode, stdinLog, timer, kills, killedExited, result,
                   returns>>

\* line 125: proc.exited has resolved
ExitKnown == child = "exited"

\* line 127
ClearTimeout(t) == IF t = "armed" THEN "cleared" ELSE t

\* lines 129-133
AgentResult_ZeroOrOne(code, lines, sigs) ==
    [exitCode |-> IF code = 0 THEN 0 ELSE 1, stdout |-> Join(lines),
     signals |-> sigs]

AgentResult_TrailingNL(code, lines, sigs) ==
    [exitCode |-> code, stdout |-> Join(lines) \o <<NL>>, signals |-> sigs]

AgentResult(code, lines, sigs) ==
    [exitCode |-> code, stdout |-> Join(lines), signals |-> sigs]

\* monitor.ts line 47: monitorAgent returns what spawnAgent returns
MonitorResult_HandledOnly(res) ==
    [res EXCEPT !.signals =
        SelectSeq(res.signals, LAMBDA sg : sg.type \in mon.handlers)]

MonitorResult(res) == res

\* lines 125-133: exit code known, timer cleared, result returned
ReturnResult ==
    /\ pc = "awaitExit"
    /\ ExitKnown
    /\ timer' = ClearTimeout(timer)
    /\ result' = IF mon = NoMonitor
                 THEN AgentResult(childCode, outputLines, signals)
                 ELSE MonitorResult(AgentResult(childCode, outputLines,
                                                signals))
    /\ returns' = returns + 1
    /\ pc' = "done"
    /\ UNCHANGED <<parserVars, harnessVars, mon, thrower, run2, childVars, opts, buffer,
                   errBuffer, outDone, errDone, outputLines, signals, cbLog, echo, handlerLog, inFlight, thrown, steps,
                   stderrOut, stdinMode, stdinLog, kills, killedExited>>

\* ------------------------------------------------------------------------
\* One run of spawnAgent against one child
\* ------------------------------------------------------------------------
InitCommon2 ==
    /\ pending = NoPending
    /\ bodyLines = << >>
    /\ lastIndex = 0
    /\ lastLine = << >>
    /\ ret = NoSignal
    /\ prePending = NoPending
    /\ preBody = << >>
    /\ blk = NoBlock
    /\ lastOp = "none"
    /\ interrupted = FALSE
    /\ unmatched = FALSE
    /\ opts = [stdin |-> FALSE, prompt |-> "", timeout |-> 0]
    /\ outW = 0 /\ errW = 0
    /\ outPipe = << >> /\ errPipe = << >>
    /\ outOpen = FALSE /\ errOpen = FALSE
    /\ child = "none" /\ childCode = -1
    /\ buffer = << >> /\ errBuffer = << >>
    /\ outDone = FALSE /\ errDone = FALSE
    /\ outputLines = << >> /\ signals = << >>
    /\ cbLog = << >>
    /\ steps = << >>
    /\ echo = << >>
    /\ handlerLog = << >>
    /\ inFlight = NoneInFlight
    /\ thrown = FALSE
    /\ stderrOut = << >>
    /\ stdinMode = "none"
    /\ stdinLog = << >>
    /\ timer = "none"
    /\ kills = 0 /\ killedExited = FALSE
    /\ result = NoResult /\ returns = 0

InitCommon ==
    /\ InitCommon2
    /\ run2 = NoRun
    /\ thrower = NoThrow

Init ==
    /\ InitCommon
    /\ mon = NoMonitor
    /\ pc = "start"
    /\ outScript \in OutScripts
    /\ errScript \in ErrScripts

Next ==
    \/ SpawnAgent
    \/ SpawnAgentFails
    \/ ChildWriteOut
    \/ ChildWriteErr
    \/ ChildCloseOut
    \/ ChildCloseErr
    \/ ChildExit
    \/ ReadStdout
    \/ ReadStdoutEnd
    \/ ReadStderr
    \/ ReadStderrEnd
    \/ TimerFires
    \/ StreamsJoined
    \/ ReturnResult

Spec == Init /\ [][Next]_vars

\* ------------------------------------------------------------------------
\* A parser on its own, fed one line at a time
\* ------------------------------------------------------------------------
LineAlphabet == {"OT", "CC", "a", " ", "L"}

\* lines the short ones do not cover: self-closing blocks in both
\* spellings of the close marker, with and without surrounding blanks,
\* duplicate attribute keys, the legacy literal next to markers, a close
\* marker before the open marker, two blocks on one line, an open marker
\* with a malformed attribute
ScenarioLines ==
    { <<"OT", "a", "CC">>,
      <<"OM">>,
      <<"OM", "a", "CC">>,
      <<"OP", "a", "CC">>,
      <<"OT", " ", "a", " ", "CC">>,
      <<"OT", "a", "CV">>,
      <<"OF", "CV">>,
      <<"OD", "CC">>,
      <<"OD">>,
      <<"CV">>,
      <<"OT", "L", "CC">>,
      <<"a", "L">>,
      <<"CC", "OT">>,
      <<"OT", "CC", "OF", "a", "CC">>,
      <<"OT", "a">>,
      <<"a", "CC", "a">>,
      <<" ", "a", " ">> }

ParserLines == SeqsUpTo(LineAlphabet, MaxLineLen) \cup ScenarioLines

HasLegacy(line) == Includes(line, LEGACY)
HasOpen(line) == \E i \in 1..Len(line) : line[i] \in SIGNAL_OPEN
HasClose(line) == \E i \in 1..Len(line) : line[i] \in SIGNAL_CLOSE

\* the three kinds of line of a well-formed multi-line block
IsOpenLine(line) == HasOpen(line) /\ ~HasClose(line) /\ ~HasLegacy(line)
IsBodyLine(line) == ~HasOpen(line) /\ ~HasClose(line) /\ ~HasLegacy(line)
IsCloseLine(line) == HasClose(line) /\ ~HasLegacy(line)

\* progress of the well-formed block being fed, kept beside the parser
NextBlock(b, idle, line) ==
    IF b.active /\ IsBodyLine(line)
    THEN [b EXCEPT !.body = Append(b.body, line),
                   !.lines = Append(b.lines, line), !.phase = "body"]
    ELSE IF b.active /\ IsCloseLine(line)
    THEN [b EXCEPT !.active = FALSE, !.lines = Append(b.lines, line),
                   !.phase = "closed"]
    ELSE IF idle /\ IsOpenLine(line)
    THEN [active |-> TRUE, open |-> line[IndexOfAny(line, SIGNAL_OPEN)],
          body |-> << >>, lines |-> <<line>>, phase |-> "opened"]
    ELSE NoBlock

\* whether an open marker is left without its close marker after the line,
\* by the rules of the protocol: a line with the legacy literal counts for
\* nothing, a close marker closes the open block, an open marker with a
\* close marker after it on the line is a whole block
NextUnmatched(u, line) ==
    IF HasLegacy(line) THEN u
    ELSE IF u /\ HasClose(line) THEN FALSE
    ELSE IF HasOpen(line)
    THEN IF \E j \in 1..Len(line) :
               j > IndexOfAny(line, SIGNAL_OPEN) /\ line[j] \in SIGNAL_CLOSE
         THEN u
         ELSE TRUE
    ELSE u

\* parser.feed(line)
Feed ==
    /\ pc = "parser"
    /\ \E line \in ParserLines :
         LET f == feed(pending, bodyLines, line, lastIndex)
             nb == NextBlock(blk, pending = NoPending \/ lastOp = "reset",
                             line)
         IN /\ Len(f.bodyLines) <= MaxBody
            /\ lastLine' = line
            /\ ret' = f.ret
            /\ prePending' = pending
            /\ preBody' = bodyLines
            /\ pending' = f.pending
            /\ bodyLines' = f.bodyLines
            /\ lastIndex' = f.lastIndex
            /\ blk' = nb
            /\ interrupted' = (interrupted /\ nb.phase # "none"
                               /\ blk.phase # "closed")
            /\ unmatched' = NextUnmatched(unmatched, line)
    /\ lastOp' = "feed"
    /\ UNCHANGED <<childVars, runVars>>

\* lines 157-158 of signals.ts
ResetState_KeepBody == [pending |-> NoPending, bodyLines |-> bodyLines]

ResetState_KeepPending == [pending |-> pending, bodyLines |-> << >>]

ResetState == [pending |-> NoPending, bodyLines |-> << >>]

\* parser.reset(), lines 155-159 of signals.ts
Reset ==
    /\ pc = "parser"
    /\ pending' = ResetState.pending
    /\ bodyLines' = ResetState.bodyLines
    /\ UNCHANGED lastIndex
    /\ blk' = NoBlock
    /\ lastLine' = << >>
    /\ ret' = NoSignal
    /\ prePending' = pending
    /\ preBody' = bodyLines
    /\ lastOp' = "reset"
    /\ interrupted' = (pending # NoPending)
    /\ unmatched' = FALSE
    /\ UNCHANGED <<childVars, runVars>>

InitParser ==
    /\ InitCommon
    /\ mon = NoMonitor
    /\ pc = "parser"
    /\ outScript = << >>
    /\ errScript = << >>

NextParser == Feed \/ Reset

SpecParser == InitParser /\ [][NextParser]_vars

\* ------------------------------------------------------------------------
\* The same run under the scheduling of the event loop: a due timer, a
\* readable or closed stream and a settled promise are eventually served.
\* Nothing is assumed of the child.
\* ------------------------------------------------------------------------
LiveOutScripts == {<< >>, <<"a">>, <<"OT", NL, "a", NL, "CC", NL>>}
LiveErrScripts == {<< >>, <<"e", NL>>}

InitLive ==
    /\ InitCommon
    /\ mon = NoMonitor
    /\ pc = "start"
    /\ outScript \in LiveOutScripts
    /\ errScript \in LiveErrScripts

\* the callbacks and continuations the event loop of the parent runs
EventLoop ==
    \/ TimerFires
    \/ ReadStdout
    \/ ReadStdoutEnd
    \/ ReadStderr
    \/ ReadStderrEnd
    \/ StreamsJoined
    \/ ReturnResult

SpecLive ==
    /\ InitLive
    /\ [][Next]_vars
    /\ WF_vars(EventLoop)

\* ------------------------------------------------------------------------
\* monitorAgent as the caller of spawnAgent (monitor.ts lines 35-62)
\* ------------------------------------------------------------------------
HandlerSets == {{}, {"TASK_COMPLETE"}}

\* monitor.ts line 15: a handler returns nothing or a promise; async tells
\* that the handlers given are of the second kind and settle later
MonitorConfigs ==
    {c \in [passthrough : {"omitted", "true", "false"}, any : BOOLEAN,
            handlers : HandlerSets, async : BOOLEAN] :
        c.async => (c.any \/ c.handlers # {})}

MonitorOutScripts ==
    { <<"a", NL>>,
      <<"OT", NL, "a", NL, "CC", NL>>,
      <<"OF", "a", "CC", NL, "OT", "CC">> }

MonitorErrScripts == {<< >>, <<"e", NL>>}

InitMonitor ==
    /\ InitCommon
    /\ mon \in MonitorConfigs
    /\ pc = "start"
    /\ outScript \in MonitorOutScripts
    /\ errScript \in MonitorErrScripts

\* the promise of a handler call settles
HandlerSettles ==
    /\ Len(inFlight.open) > 0
    /\ \E i \in 1..Len(inFlight.open) :
         inFlight' = [inFlight EXCEPT
                        !.open = SubSeq(inFlight.open, 1, i - 1)
                                 \o SubSeq(inFlight.open, i + 1,
                                           Len(inFlight.open))]
    /\ UNCHANGED <<parserVars, harnessVars, childVars, run2, pc, opts,
                   buffer, errBuffer, outDone, errDone, outputLines, signals,
                   cbLog, echo, handlerLog, mon, thrower, thrown, steps, stderrOut,
                   stdinMode, stdinLog, timer, kills, killedExited, result,
                   returns>>

NextMonitor == Next \/ HandlerSettles

SpecMonitor == InitMonitor /\ [][NextMonitor]_vars

\* ------------------------------------------------------------------------
\* Two runs of spawnAgent in one process, their reads interleaved
\* ------------------------------------------------------------------------
\* spawn.ts lines 64-66: every run starts with a parser, a signal list and
\* an output list of its own
FreshRunState ==
    [outputLines |-> << >>, signals |-> << >>, cbLog |-> << >>,
     steps |-> << >>, stderrOut |-> << >>, echo |-> << >>,
     handlerLog |-> << >>, inFlight |-> NoneInFlight, thrown |-> FALSE,
     pending |-> NoPending, bodyLines |-> << >>, lastIndex |-> 0]

\* what the child of each run writes to its stdout
TwoScripts ==
    { <<"OT", NL, "a", NL, "CC", NL>>,
      <<"OD", "CC", NL, "OF", NL, "CV">>,
      <<"a", NL, "OT", "a", "CC">> }

NewRun(script) ==
    [script |-> script, pos |-> 0, buffer |-> << >>, done |-> FALSE,
     code |-> -1, result |-> NoResult, st |-> FreshRunState]

\* the state the second run works on: its own fields (st, where lastIndex
\* is kept at 0 and stands for nothing) and the one ATTR_RE of the module
Run2State == [run2.st EXCEPT !.lastIndex = lastIndex]

InitTwo ==
    /\ InitCommon2
    /\ thrower = NoThrow
    /\ mon = NoMonitor
    /\ pc = "two"
    /\ outScript \in TwoScripts
    /\ errScript = << >>
    /\ \E script \in TwoScripts : run2 = NewRun(script)

\* one iteration of the read loop of the first run's stdout
ReadStdout1 ==
    /\ pc = "two" /\ ~outDone /\ outW < Len(outScript)
    /\ \E n \in 1..(Len(outScript) - outW) :
         LET chunk == SubSeq(outScript, outW + 1, outW + n)
         IN /\ outW' = outW + n
            /\ buffer' = ChunkRest(buffer, chunk)
            /\ SetRunState(HandleLines(TRUE, RunState,
                                       ChunkLines(buffer, chunk)))
    /\ UNCHANGED <<harnessVars, mon, thrower, run2, outScript, errScript, errW,
                   outPipe, errPipe, outOpen, errOpen, child, childCode, pc,
                   opts, errBuffer, outDone, errDone, stdinMode, stdinLog,
                   timer, kills, killedExited, result, returns>>

\* the first run's stdout reports done
ReadStdoutEnd1 ==
    /\ pc = "two" /\ ~outDone /\ outW = Len(outScript)
    /\ SetRunState(HandleLines(TRUE, RunState, RemainingLines(TRUE, buffer)))
    /\ outDone' = TRUE
    /\ UNCHANGED <<harnessVars, mon, thrower, run2, childVars, pc, opts, buffer,
                   errBuffer, errDone, stdinMode, stdinLog, timer, kills,
                   killedExited, result, returns>>

\* the first run returns
ReturnResult1 ==
    /\ pc = "two" /\ outDone /\ returns = 0
    /\ \E code \in ExitCodes :
         /\ childCode' = code
         /\ result' = AgentResult(code, outputLines, signals)
    /\ returns' = 1
    /\ UNCHANGED <<parserVars, harnessVars, mon, thrower, run2, outScript, errScript,
                   outW, errW, outPipe, errPipe, outOpen, errOpen, child, pc,
                   opts, buffer, errBuffer, outDone, errDone, outputLines,
                   signals, cbLog, steps, echo, handlerLog, inFlight, thrown, stderrOut,
                   stdinMode, stdinLog, timer, kills, killedExited>>

\* one iteration of the read loop of the second run's stdout
ReadStdout2 ==
    /\ pc = "two" /\ ~run2.done /\ run2.pos < Len(run2.script)
    /\ \E n \in 1..(Len(run2.script) - run2.pos) :
         LET chunk == SubSeq(run2.script, run2.pos + 1, run2.pos + n)
             st == HandleLines(TRUE, Run2State,
                               ChunkLines(run2.buffer, chunk))
         IN /\ lastIndex' = st.lastIndex
            /\ run2' = [run2 EXCEPT !.pos = run2.pos + n,
                                    !.buffer = ChunkRest(run2.buffer, chunk),
                                    !.st = [st EXCEPT !.lastIndex = 0]]
    /\ UNCHANGED <<pending, bodyLines, harnessVars, childVars, run1Vars>>

\* the second run's stdout reports done
ReadStdoutEnd2 ==
    /\ pc = "two" /\ ~run2.done /\ run2.pos = Len(run2.script)
    /\ LET st == HandleLines(TRUE, Run2State,
                             RemainingLines(TRUE, run2.buffer))
       IN /\ lastIndex' = st.lastIndex
          /\ run2' = [run2 EXCEPT !.done = TRUE,
                                  !.st = [st EXCEPT !.lastIndex = 0]]
    /\ UNCHANGED <<pending, bodyLines, harnessVars, childVars, run1Vars>>

\* the second run returns
ReturnResult2 ==
    /\ pc = "two" /\ run2.done /\ run2.result = NoResult
    /\ \E code \in ExitCodes :
         run2' = [run2 EXCEPT !.code = code,
                              !.result = AgentResult(code,
                                                     run2.st.outputLines,
                                                     run2.st.signals)]
    /\ UNCHANGED <<parserVars, harnessVars, childVars, run1Vars>>

NextTwo ==
    \/ ReadStdout1
    \/ ReadStdoutEnd1
    \/ ReturnResult1
    \/ ReadStdout2
    \/ ReadStdoutEnd2
    \/ ReturnResult2

SpecTwo == InitTwo /\ [][NextTwo]_vars

\* ------------------------------------------------------------------------
\* A run whose caller gave a callback that throws
\* ------------------------------------------------------------------------
Throwers ==
    { [cb |-> "onOutput", k |-> 1], [cb |-> "onOutput", k |-> 2],
      [cb |-> "onSignal", k |-> 1] }

ThrowOutScripts == { <<"a", NL>>, <<"OT", "CC", NL, "a">> }
ThrowErrScripts == {<< >>, <<"e", NL>>}

InitThrow ==
    /\ InitCommon2
    /\ run2 = NoRun
    /\ thrower \in Throwers
    /\ mon = NoMonitor
    /\ pc = "start"
    /\ outScript \in ThrowOutScripts
    /\ errScript \in ThrowErrScripts

\* lines 120-123: readStream(proc.stdout) has rejected with what the
\* callback threw, Promise.all rejects, and the await throws out of
\* spawnAgent; lines 125-133 are not reached
Rejects ==
    /\ pc = "reading"
    /\ thrown
    /\ pc' = "rejected"
    /\ UNCHANGED <<parserVars, harnessVars, childVars, run2, opts, buffer,
                   errBuffer, outDone, errDone, outputLines, signals, cbLog,
                   echo, handlerLog, inFlight, thrower, thrown, mon, steps,
                   stderrOut, stdinMode, stdinLog, timer, kills,
                   killedExited, result, returns>>

NextThrow == Next \/ Rejects

SpecThrow == InitThrow /\ [][NextThrow]_vars

\* ------------------------------------------------------------------------
\* Reference notions used by the properties
\* ------------------------------------------------------------------------
\* everything the child has written to stdout
Written == SubSeq(outScript, 1, outW)

\* the lines of a text: segments between newlines, and a last unterminated
\* segment when it is not empty
LinesOf(text) ==
    LET segs == SplitNL(text)
    IN IF Len(segs[Len(segs)]) = 0 THEN SubSeq(segs, 1, Len(segs) - 1)
       ELSE segs

\* signals completed by feeding the lines, one after the other, to a parser
RECURSIVE SignalsFrom(_, _, _, _)
SignalsFrom(pend, body, lines, li) ==
    IF Len(lines) = 0 THEN << >>
    ELSE LET f == feed(pend, body, Head(lines), li)
         IN (IF f.ret # NoSignal THEN <<f.ret>> ELSE << >>)
            \o SignalsFrom(f.pending, f.bodyLines, Tail(lines), f.lastIndex)

SignalsOfLines(lines) == SignalsFrom(NoPending, << >>, lines, 0)

\* the signals handed to onSignal, in call order
RECURSIVE SignalCalls(_)
SignalCalls(log) ==
    IF Len(log) = 0 THEN << >>
    ELSE (IF Head(log).kind = "sig" THEN <<Head(log).sig>> ELSE << >>)
         \o SignalCalls(Tail(log))

\* the attributes an open marker stands for
MarkerAttrs(tok) ==
    CASE tok = "OT" -> {<<"task", "T1">>}
      [] tok = "OD" -> {<<"type", "human-verify">>}
      [] tok = "OP" -> {<<"__proto__", "x">>, <<"task", "T1">>}
      [] OTHER -> {}

Count(s, toks) == Cardinality({i \in 1..Len(s) : s[i] \in toks})

\* types of the blocks of a text that is a sequence of complete blocks and
\* nothing else; <<"?">> for any other text
RECURSIVE BlockTypes(_, _)
BlockTypes(lines, inBlock) ==
    IF Len(lines) = 0 THEN (IF inBlock THEN <<"?">> ELSE << >>)
    ELSE LET l == Head(lines)
             o == IndexOfAny(l, SIGNAL_OPEN)
             c == IndexOfAny(l, SIGNAL_CLOSE)
             rest(b) == BlockTypes(Tail(lines), b)
         IN IF HasLegacy(l) THEN <<"?">>
            ELSE IF inBlock
            THEN IF IsBodyLine(l) THEN rest(TRUE)
                 ELSE IF c > 0 /\ o = 0 THEN rest(FALSE)
                 ELSE <<"?">>
            ELSE IF o > 0 /\ c > o /\ Count(l, SIGNAL_OPEN) = 1
                    /\ Count(l, SIGNAL_CLOSE) = 1
            THEN <<OpenType(l[o])>> \o rest(FALSE)
            ELSE IF o > 0 /\ c = 0 THEN <<OpenType(l[o])>> \o rest(TRUE)
            ELSE <<"?">>

IsBlockSequence(lines) == ~Includes(BlockTypes(lines, FALSE), "?")

SignalTypes(sigs) == [i \in 1..Len(sigs) |-> sigs[i].type]

\* ------------------------------------------------------------------------
\* Properties
\* ------------------------------------------------------------------------

\* C1: the signals handed to onSignal and the signals of the result are the
\* same sequence, and it is the sequence of signals completed by the stdout
\* lines taken in stream order, whatever was read from stderr in between.
C1_SignalOrder ==
    /\ SignalCalls(cbLog) = signals
    /\ signals = SignalsOfLines(outputLines)
    /\ pc = "done" => /\ result.signals = SignalCalls(cbLog)
                      /\ result.signals = SignalsOfLines(LinesOf(Written))

C1_Witness ==
    /\ pc = "done"
    /\ Len(result.signals) >= 2
    /\ result.signals[1] # result.signals[2]
    /\ Len(stderrOut) >= 1

\* C2: from an idle parser, an open line, then body lines without marker,
\* then a close line: feed returns nothing up to the close line and on the
\* close line returns the signal of the open marker whose body is the body
\* lines joined by newline and trimmed; no block is pending afterwards.
C2_MultiLineBlock ==
    /\ blk.phase \in {"opened", "body"} => ret = NoSignal /\ pending # NoPending
    /\ blk.phase = "closed" =>
         /\ ret = [type |-> OpenType(blk.open),
                   attrs |-> MarkerAttrs(blk.open),
                   body |-> Trim(Join(blk.body))]
         /\ pending = NoPending
         /\ bodyLines = << >>

C2_Witness ==
    /\ blk.phase = "closed"
    /\ Len(blk.body) = 2
    /\ ret.body # << >>
    /\ ret.body # Join(blk.body)
    /\ ret.attrs # {}

\* a line with an open marker and a close marker after it, no legacy literal
IsSelfClosingLine(line) ==
    /\ ~HasLegacy(line)
    /\ HasOpen(line)
    /\ \E j \in 1..Len(line) :
         j > IndexOfAny(line, SIGNAL_OPEN) /\ line[j] \in SIGNAL_CLOSE

\* the text between the open marker and the close marker that follows it
BetweenMarkers(line) ==
    LET o == IndexOfAny(line, SIGNAL_OPEN)
        after == SubSeq(line, o + 1, Len(line))
        c == IndexOfAny(after, SIGNAL_CLOSE)
    IN SubSeq(after, 1, c - 1)

\* C3: from an idle parser, a line holding an open marker followed by a
\* close marker in any accepted spelling returns, on that call, the signal
\* of the open marker with the trimmed text between the markers as body.
C3_SelfClosing ==
    (prePending = NoPending /\ IsSelfClosingLine(lastLine)) =>
        ret = [type |-> OpenType(lastLine[IndexOfAny(lastLine, SIGNAL_OPEN)]),
               attrs |-> MarkerAttrs(lastLine[IndexOfAny(lastLine, SIGNAL_OPEN)]),
               body |-> Trim(BetweenMarkers(lastLine))]

\* C4: the lines processed, the stdout text and the signals of the result
\* depend on the stdout stream only, not on how it was cut into chunks; a
\* stream of N complete blocks gives N signals, in the order of the blocks.
C4_ChunkIndependence ==
    /\ outDone => outputLines = LinesOf(Written)
    /\ pc = "done" =>
         /\ result.stdout = Join(LinesOf(Written))
         /\ result.signals = SignalsOfLines(LinesOf(Written))
         /\ IsBlockSequence(LinesOf(Written)) =>
              SignalTypes(result.signals) = BlockTypes(LinesOf(Written), FALSE)

C4_Witness ==
    /\ pc = "done"
    /\ IsBlockSequence(LinesOf(Written))
    /\ Len(result.signals) = 2
    /\ Len(outputLines) >= 2

\* C5: in every parser state a line containing the legacy literal, with or
\* without markers on the same line, returns the COMPLETE signal with no
\* attributes and an empty body.
C5_LegacyLiteral ==
    HasLegacy(lastLine) => ret = CompleteSignal

C5_Witness ==
    /\ HasLegacy(lastLine)
    /\ HasOpen(lastLine)
    /\ HasClose(lastLine)
    /\ prePending # NoPending
    /\ ret = CompleteSignal

\* C6: a result exists only once stdout and stderr have been read to their
\* end and the child has exited; there is at most one result; once the
\* result is returned no callback is invoked and the result does not change.
C6_ReturnAfterDrain ==
    /\ [](/\ returns <= 1
          /\ (returns = 1) = (pc = "done")
          /\ (result # NoResult) => pc = "done"
          /\ pc = "done" => /\ outDone /\ errDone
                            /\ Len(outPipe) = 0 /\ Len(errPipe) = 0
                            /\ ~outOpen /\ ~errOpen
                            /\ child = "exited"
                            /\ result.exitCode = childCode)
    /\ [][pc = "done" => /\ cbLog' = cbLog
                         /\ result' = result
                         /\ pc' = "done"]_vars

C6_Witness ==
    /\ pc = "done"
    /\ returns = 1
    /\ Len(cbLog) >= 3
    /\ Len(stderrOut) >= 1
    /\ kills = 0

C8_TimerDisarmedOnExit ==
    /\ ~killedExited
    /\ child = "exited" => timer # "armed"

\* C9: a launch failure produces no result: no callback was invoked, nothing
\* was written to stdin, no timer is armed, no child exists.
C9_LaunchFailure ==
    pc = "failed" =>
        /\ result = NoResult /\ returns = 0
        /\ cbLog = << >> /\ outputLines = << >> /\ signals = << >>
        /\ stdinLog = << >>
        /\ timer = "none" /\ kills = 0
        /\ child = "none"

C9_Witness ==
    /\ pc = "failed"
    /\ opts.stdin
    /\ opts.timeout > 0
    /\ Len(outScript) > 0

\* C10: after a launch the run never fails; the result carries the exit code
\* of the child, zero or not or that of a killed process, with every stdout
\* line and every signal seen.
C10_ResultForEveryExit ==
    /\ child # "none" => pc # "failed"
    /\ pc = "done" =>
         /\ result.exitCode = childCode
         /\ childCode \in ExitCodes \cup {KilledCode}
         /\ result.stdout = Join(outputLines)
         /\ outputLines = LinesOf(Written)
         /\ result.signals = signals

C10_Witness ==
    /\ pc = "done"
    /\ result.exitCode = KilledCode
    /\ Len(result.signals) >= 1
    /\ Len(result.stdout) >= 1

\* the steps the runner is to take on the lines, one line after the other
RECURSIVE StepsFrom(_, _, _, _)
StepsFrom(pend, body, lines, k) ==
    IF Len(lines) = 0 THEN << >>
    ELSE LET f == feed(pend, body, Head(lines), 0)
         IN <<Step("push", k), Step("onOutput", k), Step("feed", k)>>
            \o (IF f.ret # NoSignal
                THEN <<Step("sigpush", k), Step("onSignal", k)>>
                ELSE << >>)
            \o StepsFrom(f.pending, f.bodyLines, Tail(lines), k + 1)

\* C11: on each stdout line the runner appends the line to the output,
\* calls onOutput, feeds the parser and, for a completed signal, appends it
\* to the signals and calls onSignal, in this order and all of it before
\* anything is done on the next line.
C11_PerLineOrder ==
    /\ steps = StepsFrom(NoPending, << >>, outputLines, 1)
    /\ \A i, j \in 1..Len(steps) : i < j => steps[i][2] <= steps[j][2]
    /\ \A j \in 1..Len(steps) :
         steps[j][1] = "onSignal" =>
            \E i \in 1..(j - 1) :
               steps[i] = Step("onOutput", steps[j][2])

C11_Witness ==
    /\ pc = "done"
    /\ Len(outputLines) >= 3
    /\ \E j \in 1..Len(steps) :
         /\ steps[j][1] = "onSignal"
         /\ steps[j][2] < Len(outputLines)
         /\ steps[j][2] > 1

\* everything the child has written to stderr
ErrWritten == SubSeq(errScript, 1, errW)

IsPrefix(a, b) == Len(a) <= Len(b) /\ a = SubSeq(b, 1, Len(a))

\* C12: what the child writes to stderr reaches neither the parser, nor the
\* output, nor the signals: they follow from stdout alone, a step that reads
\* stderr leaves them as they are, and a block written to stderr gives no
\* signal.
C12_StderrIsolated ==
    /\ [](/\ IsPrefix(outputLines, SplitNL(Written))
          /\ signals = SignalsOfLines(outputLines)
          /\ Len(SignalsOfLines(LinesOf(Written))) = 0 => Len(signals) = 0
          /\ pc = "done" =>
               result = AgentResult(childCode, LinesOf(Written),
                                    SignalsOfLines(LinesOf(Written))))
    /\ [][(errPipe' # errPipe \/ errDone' # errDone \/ stderrOut' # stderrOut)
          => UNCHANGED <<pending, bodyLines, outputLines, signals, cbLog, echo, handlerLog,
                         steps, buffer>>]_vars

C12_Witness ==
    /\ pc = "done"
    /\ stderrOut = << <<"OT", "CC">> >>
    /\ Len(result.signals) = 0
    /\ Len(outputLines) >= 1

\* C13: every line the child writes to stderr is written to the parent's
\* stderr once and in order, a last line without newline included.
C13_StderrForwarded ==
    /\ IsPrefix(stderrOut, SplitNL(ErrWritten))
    /\ errDone => stderrOut = LinesOf(ErrWritten)

\* C14: a stdin adapter gets the whole prompt written once to the child's
\* stdin, which is then closed, and nothing more; otherwise stdin is not
\* connected and nothing is ever written.
C14_PromptDelivery ==
    /\ ~Launched => stdinLog = << >>
    /\ (Launched /\ opts.stdin) =>
          /\ stdinMode = "pipe"
          /\ stdinLog = << <<"write", opts.prompt>>, <<"end">> >>
    /\ (Launched /\ ~opts.stdin) =>
          /\ stdinMode = "ignore"
          /\ stdinLog = << >>

C14_Witness ==
    /\ pc = "done"
    /\ opts.stdin
    /\ stdinLog = << <<"write", "hello">>, <<"end">> >>
    /\ Len(outputLines) >= 1

\* C15: after reset() nothing is pending and the body is empty, whatever
\* the state was; a block fed from its open marker after a reset() that cut
\* a block short gives what a fresh parser gives for that block.
C15_ResetThenRefeed ==
    /\ lastOp = "reset" => pending = NoPending /\ bodyLines = << >>
    /\ (interrupted /\ blk.phase \in {"opened", "body"}) =>
          /\ ret = NoSignal
          /\ SignalsOfLines(blk.lines) = << >>
    /\ (interrupted /\ blk.phase = "closed") =>
          <<ret>> = SignalsOfLines(blk.lines)

C15_Witness ==
    /\ interrupted
    /\ blk.phase = "closed"
    /\ Len(blk.body) >= 1
    /\ ret.body # << >>
    /\ <<ret>> = SignalsOfLines(blk.lines)

\* C16: a block is pending exactly when an open marker has been fed whose
\* close marker has not been fed yet.
C16_PendingIffOpen ==
    lastOp = "feed" => ((pending # NoPending) <=> unmatched)

\* the handler calls monitorAgent is to make for the signals: for each
\* signal the catch-all handler, when given, then the handler of its type,
\* when registered
RECURSIVE HandlerCallsFor(_)
HandlerCallsFor(sigs) ==
    IF Len(sigs) = 0 THEN << >>
    ELSE (IF mon.any THEN <<HandlerCall("any", Head(sigs))>> ELSE << >>)
         \o (IF Head(sigs).type \in mon.handlers
             THEN <<HandlerCall(Head(sigs).type, Head(sigs))>> ELSE << >>)
         \o HandlerCallsFor(Tail(sigs))

CallsOf(h, sig) ==
    Cardinality({i \in 1..Len(handlerLog) : handlerLog[i] = HandlerCall(h, sig)})

Occurrences(sigs, sig) ==
    Cardinality({i \in 1..Len(sigs) : sigs[i] = sig})

EchoOf(lines) == [i \in 1..Len(lines) |-> lines[i] \o <<NL>>]

\* C18: with passthrough true or left out monitorAgent writes every stdout
\* line once, in order, to the parent's stdout; with passthrough false it
\* writes none; the result is the same either way.
C18_Passthrough ==
    /\ mon # NoMonitor =>
         echo = IF mon.passthrough \in {"true", "omitted"}
                THEN EchoOf(outputLines) ELSE << >>
    /\ (mon # NoMonitor /\ pc = "done") =>
         /\ outputLines = LinesOf(Written)
         /\ result.stdout = Join(LinesOf(Written))
         /\ result.signals = SignalsOfLines(LinesOf(Written))

C18_Witness ==
    /\ pc = "done"
    /\ mon.passthrough = "omitted"
    /\ Len(echo) = 3
    /\ Len(result.signals) = 1

\* C19: monitorAgent returns the result spawnAgent returns for the same
\* child, whatever handlers are registered, and fails only when the launch
\* fails.
C19_MonitorTransparent ==
    mon # NoMonitor =>
        /\ pc = "done" =>
             result = AgentResult(childCode, LinesOf(Written),
                                  SignalsOfLines(LinesOf(Written)))
        /\ pc # "done" => result = NoResult
        /\ pc = "failed" => child = "none" /\ handlerLog = << >> /\ echo = << >>

C19_Witness ==
    /\ pc = "done"
    /\ mon.handlers = {"TASK_COMPLETE"}
    /\ ~mon.any
    /\ mon.passthrough = "false"
    /\ Len(result.signals) = 2
    /\ Len(handlerLog) = 1
    /\ result.exitCode = 1

\* the callbacks a run makes for the lines of its stdout when it runs alone
RECURSIVE CallbacksFrom(_, _, _, _)
CallbacksFrom(pend, body, lines, li) ==
    IF Len(lines) = 0 THEN << >>
    ELSE LET f == feed(pend, body, Head(lines), li)
         IN <<OutEv(Head(lines))>>
            \o (IF f.ret # NoSignal THEN <<SigEv(f.ret)>> ELSE << >>)
            \o CallbacksFrom(f.pending, f.bodyLines, Tail(lines), f.lastIndex)

CallbacksOfLines(lines) == CallbacksFrom(NoPending, << >>, lines, 0)

\* the result of a run whose child writes the script and exits with the code
ResultAlone(script, code) ==
    AgentResult(code, LinesOf(script), SignalsOfLines(LinesOf(script)))

\* the fields of the first run and of its parser
Run1Fields == <<pending, bodyLines, buffer, outputLines, signals, cbLog,
                outW, outDone, result>>

\* C20: two runs whose reads interleave in any order do not affect each
\* other: the signals, callbacks and result of each are those it gives when
\* it runs alone, and a step of one run leaves the other run and its parser
\* as they are.
C20_RunsIndependent ==
    /\ [](pc = "two" =>
            /\ IsPrefix(outputLines, SplitNL(outScript))
            /\ signals = SignalsOfLines(outputLines)
            /\ cbLog = CallbacksOfLines(outputLines)
            /\ returns = 1 => result = ResultAlone(outScript, childCode)
            /\ IsPrefix(run2.st.outputLines, SplitNL(run2.script))
            /\ run2.st.signals = SignalsOfLines(run2.st.outputLines)
            /\ run2.st.cbLog = CallbacksOfLines(run2.st.outputLines)
            /\ run2.result # NoResult =>
                 run2.result = ResultAlone(run2.script, run2.code))
    /\ [][pc = "two" =>
            /\ run2' # run2 => UNCHANGED Run1Fields
            /\ Run1Fields' # Run1Fields => UNCHANGED run2]_vars

C20_Witness ==
    /\ pc = "two"
    /\ pending # NoPending /\ Len(bodyLines) = 1
    /\ run2.st.pending # NoPending
    /\ run2.st.pending.type # pending.type
    /\ Len(signals) = 0
    /\ Len(run2.st.signals) = 1
    /\ run2.st.signals[1].attrs = {<<"type", "human-verify">>}

\* C21: with timeout 0 or left out no timer is armed and the child is never
\* killed; kill is called only by the timer firing, and at most once in a
\* run.
C21_KillOnlyByTimer ==
    /\ [](/\ opts.timeout = 0 => (timer = "none" /\ kills = 0)
          /\ kills <= 1
          /\ kills = 1 <=> timer \in {"fired"})
    /\ [][kills' # kills =>
            /\ timer = "armed" /\ timer' = "fired"
            /\ opts.timeout > 0
            /\ kills' = kills + 1]_vars

C21_Witness ==
    /\ pc = "done"
    /\ opts.timeout = 0
    /\ timer = "none"
    /\ kills = 0
    /\ result.exitCode = 1
    /\ Len(result.signals) >= 1

\* open markers with an item that is not a well-formed key="value" pair
MalformedOpen == OpenMarkers \ SIGNAL_OPEN

\* the attributes the well-formed pairs of an open marker give
WellFormedAttrs(tok) ==
    LET items == MarkerItems(tok)
    IN {<<items[i].key, items[i].value>> :
          i \in {j \in 1..Len(items) :
                   /\ items[j].quoted
                   /\ \A k \in (j + 1)..Len(items) :
                        items[k].quoted => items[k].key # items[j].key}}

\* C22: feed never raises an error, it returns a Signal or nothing; an open
\* marker with a malformed pair next to well-formed pairs opens a block
\* that carries the well-formed pairs as its attributes.
C22_MalformedAttrs ==
    /\ ret = NoSignal \/ ret.type # "null"
    /\ (/\ lastOp = "feed" /\ prePending = NoPending
        /\ Len(lastLine) = 1 /\ lastLine[1] \in MalformedOpen) =>
          /\ ret = NoSignal
          /\ pending = [type |-> OpenType(lastLine[1]),
                        attrs |-> WellFormedAttrs(lastLine[1])]

\* C23: while a block is pending, a line with an open marker, no close
\* marker and no legacy literal is body text: it is appended to the body,
\* the pending block keeps its type, attributes and body lines, and feed
\* returns nothing.
C23_OpenWhilePending ==
    (lastOp = "feed" /\ prePending # NoPending /\ IsOpenLine(lastLine)) =>
        /\ ret = NoSignal
        /\ pending = prePending
        /\ bodyLines = Append(preBody, lastLine)

\* C24: while a block is pending, a line with a close marker and no legacy
\* literal closes the pending block: feed returns its signal and clears the
\* state, also when the line holds an open marker, and no block is pending
\* afterwards.
C24_CloseBeforeOpen ==
    (/\ lastOp = "feed" /\ prePending # NoPending
     /\ HasClose(lastLine) /\ ~HasLegacy(lastLine)) =>
        /\ ret = [type |-> prePending.type, attrs |-> prePending.attrs,
                  body |-> Trim(Join(preBody))]
        /\ pending = NoPending
        /\ bodyLines = << >>

C24_Witness ==
    /\ lastOp = "feed"
    /\ prePending # NoPending
    /\ HasClose(lastLine) /\ HasOpen(lastLine) /\ ~HasLegacy(lastLine)
    /\ OpenType(lastLine[IndexOfAny(lastLine, SIGNAL_OPEN)]) # prePending.type
    /\ Len(preBody) >= 1
    /\ ret.type = prePending.type
    /\ ret.body # << >>
    /\ pending = NoPending

\* the signal of a pending block closed with the body lines
PendingSignal(pend, body) ==
    [type |-> pend.type, attrs |-> pend.attrs, body |-> Trim(Join(body))]

\* C25: a line with the legacy literal fed while a block is pending leaves
\* the parser as it was: same pending type and attributes, same body lines,
\* the legacy line not among them; a close marker fed next gives the signal
\* of the pending block.
C25_LegacyKeepsPending ==
    (lastOp = "feed" /\ prePending # NoPending /\ HasLegacy(lastLine)) =>
        /\ ret = CompleteSignal
        /\ pending = prePending
        /\ bodyLines = preBody
        /\ \A close \in SIGNAL_CLOSE :
             LET f == feed(pending, bodyLines, <<close>>, lastIndex)
             IN /\ f.ret = PendingSignal(prePending, preBody)
                /\ f.pending = NoPending

C25_Witness ==
    /\ lastOp = "feed"
    /\ prePending # NoPending /\ prePending.attrs # {}
    /\ HasLegacy(lastLine) /\ HasClose(lastLine)
    /\ Len(preBody) >= 1
    /\ ret = CompleteSignal
    /\ bodyLines = preBody

\* the last feed call took the self-closing path: no legacy literal, no
\* pending block to close, an open marker and a close marker on the line
TookSelfClosingPath ==
    /\ lastOp = "feed"
    /\ ~HasLegacy(lastLine)
    /\ ~(prePending # NoPending /\ HasClose(lastLine))
    /\ HasOpen(lastLine) /\ HasClose(lastLine)

\* C26: the feed call that returns a self-closing signal leaves pending and
\* the accumulated body as they were.
C26_SelfClosingFrame ==
    TookSelfClosingPath =>
        /\ ret # NoSignal
        /\ pending = prePending
        /\ bodyLines = preBody

C26_Witness ==
    /\ TookSelfClosingPath
    /\ ret.type = "TASK_COMPLETE" /\ ret.body = <<"a">>
    /\ pending = NoPending
    /\ bodyLines = << >>

\* a close marker after the leftmost open marker of the line
CloseAfterOpen(line) ==
    \E j \in 1..Len(line) :
        j > IndexOfAny(line, SIGNAL_OPEN) /\ line[j] \in SIGNAL_CLOSE

\* C27: with no block pending, a line with an open marker is self-closing
\* only when a close marker comes after the open marker on the line; when
\* the only close marker comes before it, the line opens a pending block
\* and feed returns nothing.
C27_CloseMustFollowOpen ==
    (/\ lastOp = "feed" /\ prePending = NoPending
     /\ HasOpen(lastLine) /\ ~HasLegacy(lastLine)) =>
        IF CloseAfterOpen(lastLine)
        THEN ret # NoSignal /\ pending = NoPending
        ELSE /\ ret = NoSignal
             /\ pending.type =
                  OpenType(lastLine[IndexOfAny(lastLine, SIGNAL_OPEN)])

\* C29: with no block pending, a line with neither the legacy literal nor
\* an open marker, a line with only a close marker included, returns
\* nothing and leaves the parser as it was.
C29_IdleOtherLine ==
    (/\ lastOp = "feed" /\ prePending = NoPending
     /\ ~HasLegacy(lastLine) /\ ~HasOpen(lastLine)) =>
        /\ ret = NoSignal
        /\ pending = NoPending
        /\ bodyLines = preBody
        /\ bodyLines = << >>

C29_Witness ==
    /\ lastOp = "feed"
    /\ prePending = NoPending
    /\ HasClose(lastLine) /\ ~HasOpen(lastLine) /\ ~HasLegacy(lastLine)
    /\ Len(lastLine) = 3
    /\ ret = NoSignal
    /\ pending = NoPending /\ bodyLines = << >>

\* what the runner has read from the child's stdout so far
ReadSoFar == SubSeq(outScript, 1, outW - Len(outPipe))

\* the segments of a text that end with a newline
CompleteLines(text) ==
    LET segs == SplitNL(text)
    IN SubSeq(segs, 1, Len(segs) - 1)

\* the lines passed to onOutput, in order
RECURSIVE OutputCalls(_)
OutputCalls(log) ==
    IF Len(log) = 0 THEN << >>
    ELSE (IF Head(log).kind = "out" THEN <<Head(log).line>> ELSE << >>)
         \o OutputCalls(Tail(log))

\* C28: what is passed to onOutput and to feed is a complete stdout line:
\* no newline in it, a whole segment between newlines or between the last
\* newline and the end of the stream; a partial line waits in the buffer
\* until its newline arrives or the stream ends, and every line, a last
\* unterminated non-empty one included, is processed exactly once.
C28_WholeLines ==
    /\ \A i \in 1..Len(outputLines) : ~Includes(outputLines[i], NL)
    /\ OutputCalls(cbLog) = outputLines
    /\ Count(steps, {Step("feed", k) : k \in 1..Len(outputLines)})
         = Len(outputLines)
    /\ (Launched /\ ~outDone) =>
         /\ outputLines = CompleteLines(ReadSoFar)
         /\ buffer = SplitNL(ReadSoFar)[Len(SplitNL(ReadSoFar))]
    /\ outDone => outputLines = LinesOf(ReadSoFar)

C28_Witness ==
    /\ pc = "done"
    /\ Len(outputLines) >= 2
    /\ buffer # << >>
    /\ outputLines[Len(outputLines)] = buffer
    /\ outScript[Len(outScript)] # NL
    /\ Len(result.signals) >= 1

\* C30: the attributes of a signal give, for each key of the open marker,
\* the value of the last pair with that key: one value for a key, every
\* well-formed pair counts, a later pair replaces an earlier one of the
\* same key.
C30_LastValueWins ==
    (/\ lastOp = "feed" /\ ~HasLegacy(lastLine) /\ HasOpen(lastLine)
     /\ ~(prePending # NoPending /\ HasClose(lastLine))) =>
        LET tok == lastLine[IndexOfAny(lastLine, SIGNAL_OPEN)]
            attrs == IF HasClose(lastLine) THEN ret.attrs ELSE pending.attrs
        IN /\ \A p, q \in attrs : p[1] = q[1] => p = q
           /\ \A i \in 1..Len(MarkerItems(tok)) :
                \E p \in attrs : p[1] = MarkerItems(tok)[i].key
           /\ attrs = WellFormedAttrs(tok)

\* C35: in every state of the parser, after any feed and reset calls, the
\* accumulated body is empty when no block is pending.
C35_IdleBodyEmpty ==
    pending = NoPending => bodyLines = << >>

C35_Witness ==
    /\ lastOp = "reset"
    /\ prePending # NoPending
    /\ Len(preBody) >= 1
    /\ pending = NoPending
    /\ bodyLines = << >>

\* text next to the leftmost marker of a set on a line
TextBefore(line, toks) == SubSeq(line, 1, IndexOfAny(line, toks) - 1)
TextAfter(line, toks) == SubSeq(line, IndexOfAny(line, toks) + 1, Len(line))

\* C37: the body of a multi-line block is made of the lines strictly
\* between the open line and the close line: text after the marker on the
\* open line and text before or after the marker on the close line are not
\* in it.
C37_BodyBetweenLines ==
    blk.phase = "closed" =>
        /\ ret.body =
             Trim(Join(SubSeq(blk.lines, 2, Len(blk.lines) - 1)))
        /\ ret.type = OpenType(blk.open)

C37_Witness ==
    /\ blk.phase = "closed"
    /\ Len(blk.lines) = 3
    /\ TextAfter(blk.lines[1], SIGNAL_OPEN) # << >>
    /\ TextBefore(blk.lines[3], SIGNAL_CLOSE) # << >>
    /\ TextAfter(blk.lines[3], SIGNAL_CLOSE) # << >>
    /\ ret.body = blk.lines[2]
    /\ ret.body # << >>

\* the pending block of a parser that was fed the lines
RECURSIVE PendingFrom(_, _, _, _)
PendingFrom(pend, body, lines, li) ==
    IF Len(lines) = 0 THEN pend
    ELSE LET f == feed(pend, body, Head(lines), li)
         IN PendingFrom(f.pending, f.bodyLines, Tail(lines), f.lastIndex)

PendingAfter(lines) == PendingFrom(NoPending, << >>, lines, 0)

\* the line from which on a block is open without a break up to the end
\* of the lines, 0 when no block is open at the end
OpenSince(lines) ==
    IF PendingAfter(lines) = NoPending THEN 0
    ELSE CHOOSE i \in 1..Len(lines) :
           /\ \A j \in i..Len(lines) :
                PendingAfter(SubSeq(lines, 1, j)) # NoPending
           /\ i > 1 => PendingAfter(SubSeq(lines, 1, i - 1)) = NoPending

\* C33: a block whose open marker was read and whose close marker does not
\* come before stdout ends gives no signal: none in the result, no onSignal
\* call for it; its lines are in the stdout of the result and the run
\* returns as usual.
C33_UnclosedBlock ==
    (pc = "done" /\ pending # NoPending) =>
        LET lines == LinesOf(Written)
            open == OpenSince(lines)
            before == SignalsOfLines(SubSeq(lines, 1, open - 1))
        IN /\ open > 0
           /\ returns = 1
           /\ result.stdout = Join(lines)
           /\ \A j \in open..Len(lines) :
                \E k \in 1..Len(outputLines) : outputLines[k] = lines[j]
           /\ SignalCalls(cbLog) = result.signals
           /\ SubSeq(result.signals, 1, Len(before)) = before
           /\ \A k \in (Len(before) + 1)..Len(result.signals) :
                result.signals[k] = CompleteSignal

C33_Witness ==
    /\ pc = "done"
    /\ pending # NoPending
    /\ Len(bodyLines) = 1
    /\ result.signals = << >>
    /\ Len(result.stdout) = 3
    /\ result.exitCode = 0

\* a text without one newline at its end, when it ends with a newline
StripOneNL(text) ==
    IF Len(text) > 0 /\ text[Len(text)] = NL
    THEN SubSeq(text, 1, Len(text) - 1)
    ELSE text

\* C34: the stdout of the result is the text the child wrote to stdout,
\* less one newline at the end when the text ends with a newline; it is
\* also the lines passed to onOutput joined by newline, marker lines
\* included.
C34_StdoutText ==
    pc = "done" =>
        /\ result.stdout = StripOneNL(Written)
        /\ result.stdout = Join(OutputCalls(cbLog))

C34_Witness ==
    /\ pc = "done"
    /\ Len(Written) >= 6
    /\ Written[Len(Written)] = NL
    /\ Len(result.stdout) = Len(Written) - 1
    /\ Len(result.signals) = 1
    /\ Includes(result.stdout, "OT")

\* a line made of two self-closing blocks, one after the other
TwoBlocks(line) ==
    \E o1, c1, o2, c2 \in 1..Len(line) :
        /\ o1 < c1 /\ c1 < o2 /\ o2 < c2
        /\ line[o1] \in SIGNAL_OPEN /\ line[c1] \in SIGNAL_CLOSE
        /\ line[o2] \in SIGNAL_OPEN /\ line[c2] \in SIGNAL_CLOSE
        /\ \A j \in 1..(o1 - 1) : line[j] \notin SIGNAL_OPEN \cup SIGNAL_CLOSE
        /\ ~HasLegacy(line)

C31_HandlersAwaited ==
    /\ [](mon # NoMonitor => (~inFlight.overrun /\ ~inFlight.overlap))
    /\ [][(mon # NoMonitor /\ pc # "done" /\ pc' = "done") =>
            Len(inFlight.open) = 0]_vars

\* C32: when spawnAgent has finished, with a result or with the exception
\* of the onOutput or onSignal callback, no timer of the run is armed.
C32_NoTimerLeft ==
    pc \in {"done", "rejected"} => timer # "armed"

====
